---- MODULE Spec2Model ----
(***************************************************************************)
(* Screenshot extractor: the two scripts                                   *)
(*   src/extract-screenshots.py                      (variant "strict")    *)
(*   src/examples/browser-mcp/extract-screenshots.py (variant "optional")  *)
(* modelled as one sequential state machine per run.  Python strings are   *)
(* sequences of one-character strings, so that replace, split, slicing and *)
(* startswith are computed as the code computes them.  A JSON value is a   *)
(* record tagged with its type; a scalar carries in field s what Python's  *)
(* str() gives for it, which is what an f-string prints.                   *)
(***************************************************************************)
EXTENDS Integers, Sequences, FiniteSets, TLC

VARIABLES variant, nargs, fileExists, pc, data, recent_results, i,
          screenshot_count, dirExisted, dirExists, fs, out, wrote, failed,
          raised, exit_status

vars == <<variant, nargs, fileExists, pc, data, recent_results, i,
          screenshot_count, dirExisted, dirExists, fs, out, wrote, failed,
          raised, exit_status>>

(* ------------------------------ bounds -------------------------------- *)

\* longest recentResults list drawn for an input document
MaxResults == 2

\* most command-line arguments given after the program name
MaxArgs == 2

(* --------------------------- Python strings --------------------------- *)

Min(a, b) == IF a < b THEN a ELSE b

\* str.startswith(p)
StartsWith(s, p) == Len(s) >= Len(p) /\ SubSeq(s, 1, Len(p)) = p

\* str.replace(old, new): leftmost, non-overlapping occurrences, old non-empty
RECURSIVE Replace(_, _, _)
Replace(s, old, new) ==
    IF Len(s) < Len(old) THEN s
    ELSE IF SubSeq(s, 1, Len(old)) = old
         THEN new \o Replace(SubSeq(s, Len(old) + 1, Len(s)), old, new)
         ELSE <<Head(s)>> \o Replace(Tail(s), old, new)

\* str.split(sep)[0] for a one-character sep: what precedes the first sep
RECURSIVE SplitFirst(_, _)
SplitFirst(s, sep) ==
    IF s = <<>> \/ Head(s) = sep THEN <<>>
    ELSE <<Head(s)>> \o SplitFirst(Tail(s), sep)

\* s[:n]
Slice(s, n) == SubSeq(s, 1, Min(n, Len(s)))

Digits == <<"0", "1", "2", "3", "4", "5", "6", "7", "8", "9">>

IsDigit(c) == \E k \in 1..10 : Digits[k] = c

DigitVal(c) == (CHOOSE k \in 1..10 : Digits[k] = c) - 1

\* str(n) for a natural number n
RECURSIVE IntToStr(_)
IntToStr(n) ==
    IF n < 10 THEN <<Digits[n + 1]>>
    ELSE IntToStr(n \div 10) \o <<Digits[(n % 10) + 1]>>

\* format(n, "02d"): zero-padded to a width of at least two
Pad02(n) == IF n < 10 THEN <<"0">> \o IntToStr(n) ELSE IntToStr(n)

Letters ==
    {"a", "b", "c", "d", "e", "f", "g", "h", "i", "j", "k", "l", "m", "n",
     "o", "p", "q", "r", "s", "t", "u", "v", "w", "x", "y", "z",
     "A", "B", "C", "D", "E", "F", "G", "H", "I", "J", "K", "L", "M", "N",
     "O", "P", "Q", "R", "S", "T", "U", "V", "W", "X", "Y", "Z"}

\* str.isalnum() on one character (the inputs drawn here are ASCII)
IsAlnum(c) == IsDigit(c) \/ c \in Letters

(* -------------------------- string literals --------------------------- *)

DataImagePrefix == <<"d","a","t","a",":","i","m","a","g","e","/">>
Https == <<"h","t","t","p","s",":","/","/">>
Http == <<"h","t","t","p",":","/","/">>
output_dir == <<"e","x","t","r","a","c","t","e","d","_","s","c","r","e","e","n","s","h","o","t","s">>
ScreenshotUnderscore == <<"s","c","r","e","e","n","s","h","o","t","_">>
ResultUnderscore == <<"r","e","s","u","l","t","_">>
UnknownUnderscore == <<"u","n","k","n","o","w","n","_">>
UnknownUrl == <<"u","n","k","n","o","w","n","_","u","r","l">>
Unknown == <<"u","n","k","n","o","w","n">>
UnknownTime == <<"u","n","k","n","o","w","n","_","t","i","m","e">>
DotTxt == <<".","t","x","t">>
UtcOffset == <<"+","0","0",":","0","0">>

(* ----------------------------- JSON values ---------------------------- *)

\* a key that the object does not have (what dict.get replaces by its default)
Absent == [type |-> "absent", s |-> <<>>]

JStr(s) == [type |-> "string", s |-> s]
JNum(n) == [type |-> "number", s |-> IntToStr(n), n |-> n]
JNull == [type |-> "null", s |-> <<"N","o","n","e">>]
JBool(b) == [type |-> "bool", s |-> IF b THEN <<"T","r","u","e">> ELSE <<"F","a","l","s","e">>, b |-> b]
JArray(items) == [type |-> "array", items |-> items]

\* json.dumps of a value, and a text that is no JSON at all
JsonText(v) == [type |-> "string", json |-> TRUE, decoded |-> v]
Garbage == [type |-> "string", json |-> FALSE, decoded |-> Absent]

\* one element of recentResults
Entry(id, url, timestamp, metadata, dat) ==
    [type |-> "object", id |-> id, url |-> url, timestamp |-> timestamp,
     metadata |-> metadata, data |-> dat]

Metadata(screenshot) == [type |-> "object", screenshot |-> screenshot]
DataField(navigated) == [type |-> "object", navigated |-> navigated]

\* one element of contents
Content(text) == [type |-> "object", text |-> text]

\* the top-level object
Document(contents, recentResults) ==
    [type |-> "object", contents |-> contents, recentResults |-> recentResults]

\* the dict {} that the code passes as a default
EmptyMetadata == Metadata(Absent)
EmptyData == DataField(Absent)
EmptyDocument == Document(Absent, Absent)

\* bool(v), as `if v` and `not v` take it
Truthy(v) ==
    CASE v.type = "string" -> v.s # <<>>
      [] v.type = "number" -> v.n # 0
      [] v.type = "bool"   -> v.b
      [] v.type = "array"  -> v.items # <<>>
      [] v.type = "object" -> TRUE    \* every object drawn where bool() is taken is non-empty
      [] OTHER             -> FALSE

\* dict.get(key, default), applied to the field the key names
Get(field, default) == IF field.type = "absent" THEN default ELSE field

\* iter(v): the elements a for loop over v visits (a str yields its characters)
\* (no object is drawn where the code iterates or indexes)
Elements(v) ==
    CASE v.type = "array"  -> v.items
      [] v.type = "string" -> [k \in 1..Len(v.s) |-> JStr(<<v.s[k]>>)]
      [] OTHER             -> <<>>

Iterable(v) == v.type \in {"array", "string"}

(* ----------------------- program constants --------------------------- *)

\* clean_url[:50]
CleanUrlMax == 50

\* domain[:30]
DomainMax == 30

(* ------------------------ datetime (optional) ------------------------- *)

TwoDigits(t, k) == IsDigit(t[k]) /\ IsDigit(t[k + 1])

TwoDigitVal(t, k) == 10 * DigitVal(t[k]) + DigitVal(t[k + 1])

\* a UTC offset +HH:MM or -HH:MM
IsOffset(r) ==
    /\ Len(r) = 6
    /\ r[1] \in {"+", "-"}
    /\ TwoDigits(r, 2) /\ r[4] = ":" /\ TwoDigits(r, 5)
    /\ TwoDigitVal(r, 2) < 24 /\ TwoDigitVal(r, 5) < 60

\* what may follow HH:MM:SS: nothing, a fraction of 3 or 6 digits, an offset
IsTimeTail(r) ==
    \/ r = <<>>
    \/ IsOffset(r)
    \/ \E n \in {3, 6} :
          /\ Len(r) >= n + 1
          /\ r[1] = "."
          /\ \A k \in 2..(n + 1) : IsDigit(r[k])
          /\ (Len(r) = n + 1 \/ IsOffset(SubSeq(r, n + 2, Len(r))))

\* datetime.fromisoformat(t) succeeds: YYYY-MM-DD, or that followed by one
\* separator character and HH:MM:SS with its tail (month lengths not checked)
IsIsoFormat(t) ==
    /\ Len(t) >= 10
    /\ \A k \in 1..4 : IsDigit(t[k])
    /\ t[5] = "-" /\ TwoDigits(t, 6) /\ t[8] = "-" /\ TwoDigits(t, 9)
    /\ TwoDigitVal(t, 6) \in 1..12 /\ TwoDigitVal(t, 9) \in 1..31
    /\ \/ Len(t) = 10
       \/ /\ Len(t) >= 19
          /\ TwoDigits(t, 12) /\ t[14] = ":" /\ TwoDigits(t, 15)
          /\ t[17] = ":" /\ TwoDigits(t, 18)
          /\ TwoDigitVal(t, 12) < 24 /\ TwoDigitVal(t, 15) < 60
          /\ TwoDigitVal(t, 18) < 60
          /\ IsTimeTail(SubSeq(t, 20, Len(t)))

\* dt.strftime('%Y%m%d_%H%M%S') of the datetime that fromisoformat(t) gives
Strftime(t) ==
    SubSeq(t, 1, 4) \o SubSeq(t, 6, 7) \o SubSeq(t, 9, 10) \o <<"_">> \o
    (IF Len(t) = 10 THEN <<"0","0","0","0","0","0">>
     ELSE SubSeq(t, 12, 13) \o SubSeq(t, 15, 16) \o SubSeq(t, 18, 19))

\* lines 62-66: a timestamp that is no str, or does not parse, gives
\* 'unknown_time' (the bare except catches both)
time_str(timestamp) ==
    IF timestamp.type = "string"
       /\ IsIsoFormat(Replace(timestamp.s, <<"Z">>, UtcOffset))
    THEN Strftime(Replace(timestamp.s, <<"Z">>, UtcOffset))
    ELSE UnknownTime

(* ----------------------------- filenames ------------------------------ *)

\* os.path.join(a, b): an absolute b replaces a
OsPathJoin(a, b) == IF StartsWith(b, <<"/">>) THEN b ELSE a \o <<"/">> \o b

\* strict, lines 66-68
clean_url(url) ==
    Slice(Replace(Replace(Replace(Replace(url, Https, <<>>), Http, <<>>),
                          <<"/">>, <<"_">>), <<":">>, <<"_">>),
          CleanUrlMax)

\* strict, line 71
timestamp_str(timestamp, idx) ==
    IF Truthy(timestamp)
    THEN SplitFirst(Replace(Replace(timestamp.s, <<":">>, <<"-">>),
                            <<"T">>, <<"_">>), ".")
    ELSE ScreenshotUnderscore \o IntToStr(idx)

\* strict, line 72
FilenameStrict(timestamp, url, result_id, idx) ==
    timestamp_str(timestamp, idx) \o <<"_">> \o clean_url(url.s) \o <<"_">>
        \o result_id.s \o DotTxt

\* strict, line 73
filepath(filename) == OsPathJoin(output_dir, filename)

IsDomainChar(c) == IsAlnum(c) \/ c \in {".", "-", "_"}

\* optional, lines 69-70
domain(url) ==
    Slice(SelectSeq(SplitFirst(Replace(Replace(url, Https, <<>>), Http, <<>>),
                               "/"),
                    IsDomainChar),
          DomainMax)

\* optional, line 72
FilenameOptional(count, timestamp, url) ==
    output_dir \o <<"/">> \o ScreenshotUnderscore \o Pad02(count) \o <<"_">>
        \o time_str(timestamp) \o <<"_">> \o domain(url.s) \o DotTxt

(* ------------------------------ printing ------------------------------ *)

\* one print of the run: what it reports, and about which entry
LogLine(kind, idx, count, name, url, length) ==
    [kind |-> kind, idx |-> idx, count |-> count, name |-> name, url |-> url,
     length |-> length]

\* a print that is about no entry
Line(kind) == LogLine(kind, -1, 0, <<>>, Absent, 0)

(* --------------------------- shape normalizer ------------------------- *)

Raised(e) == [exc |-> e, results |-> Absent]
Results(r) == [exc |-> "", results |-> r]

\* strict, line 39: data.get('recentResults', [])
RecentResultsStrict(d) ==
    IF d.type # "object" THEN Raised("AttributeError")
    ELSE Results(Get(d.recentResults, JArray(<<>>)))

\* optional, lines 29-36.  No array or string drawn for the top-level value
\* holds the string 'contents', so `in` is false of them.
RecentResultsOptional(d) ==
    IF d.type \in {"number", "null", "bool"} THEN Raised("TypeError")
    ELSE IF d.type = "object" /\ d.contents.type # "absent"
    THEN IF ~Iterable(d.contents) THEN Raised("TypeError")
         ELSE IF Len(Elements(d.contents)) > 0
         THEN LET first == Elements(d.contents)[1] IN
              IF first.type # "object" THEN Raised("AttributeError")
              ELSE LET text == Get(first.text, JsonText(EmptyDocument)) IN
                   IF text.type # "string" THEN Raised("TypeError")
                   ELSE IF ~text.json THEN Raised("JSONDecodeError")
                   ELSE IF text.decoded.type # "object"
                   THEN Raised("AttributeError")
                   ELSE Results(Get(text.decoded.recentResults, JArray(<<>>)))
         ELSE Results(Get(d.recentResults, JArray(<<>>)))
    ELSE IF d.type # "object" THEN Raised("AttributeError")
    ELSE Results(Get(d.recentResults, JArray(<<>>)))

(* ------------------------------ loop body ----------------------------- *)

\* The locals and the files of a run while the loop is running: count is
\* screenshot_count; wrote lists the writes that succeeded and failed the
\* entries whose write failed; exc is the exception the body raised.
Frame(count, files, log, w, f) ==
    [count |-> count, fs |-> files, out |-> log, wrote |-> w, failed |-> f,
     exc |-> ""]

\* screenshot_data and screenshot_data.startswith('data:image/')
IsScreenshot(screenshot_data) ==
    Truthy(screenshot_data) /\ StartsWith(screenshot_data.s, DataImagePrefix)

\* open(path, 'w') and f.write(content) having succeeded
WriteFile(fr, idx, path, content) ==
    [fr EXCEPT !.fs = (path :> content) @@ fr.fs,
               !.wrote = Append(fr.wrote, [idx |-> idx, path |-> path])]

\* strict, lines 54-86: one iteration, for the entry result at index idx;
\* fault says that opening the output file fails
LoopBodyStrict(fr, result, idx, fault) ==
    IF result.type # "object" THEN [fr EXCEPT !.exc = "AttributeError"]
    ELSE
    LET result_id == Get(result.id, JStr(ResultUnderscore \o IntToStr(idx)))
        url == Get(result.url, JStr(UnknownUrl))
        timestamp == Get(result.timestamp, JStr(<<>>))
        metadata == Get(result.metadata, EmptyMetadata)
    IN
    IF metadata.type # "object" THEN [fr EXCEPT !.exc = "AttributeError"]
    ELSE
    LET screenshot_data == Get(metadata.screenshot, JStr(<<>>)) IN
    IF ~Truthy(screenshot_data) THEN fr
    ELSE IF screenshot_data.type # "string"
    THEN [fr EXCEPT !.exc = "AttributeError"]
    ELSE IF ~IsScreenshot(screenshot_data) THEN fr
    ELSE
    LET counted == [fr EXCEPT !.count = @ + 1] IN
    IF url.type # "string" \/ (Truthy(timestamp) /\ timestamp.type # "string")
    THEN [counted EXCEPT !.exc = "AttributeError"]
    ELSE
    LET filename == FilenameStrict(timestamp, url, result_id, idx) IN
    IF fault
    THEN [counted EXCEPT
            !.out = Append(@, LogLine("write_error", idx, counted.count,
                                      filename, url, 0)),
            !.failed = @ \cup {idx}]
    ELSE [WriteFile(counted, idx, filepath(filename), screenshot_data.s) EXCEPT
            !.out = Append(@, LogLine("extracted", idx, counted.count,
                                      filename, url, Len(screenshot_data.s)))]

\* optional, lines 50-90: one iteration, for the entry result at index idx;
\* fault says that opening the output file fails
LoopBodyOptional(fr, result, idx, fault) ==
    IF result.type # "object" THEN [fr EXCEPT !.exc = "AttributeError"]
    ELSE
    LET metadata == Get(result.metadata, EmptyMetadata) IN
    IF metadata.type # "object" THEN [fr EXCEPT !.exc = "AttributeError"]
    ELSE
    LET screenshot_data == Get(metadata.screenshot, JStr(<<>>)) IN
    IF Truthy(screenshot_data) /\ screenshot_data.type # "string"
    THEN [fr EXCEPT !.exc = "AttributeError"]
    ELSE IF IsScreenshot(screenshot_data)
    THEN
      LET counted == [fr EXCEPT !.count = @ + 1]
          result_id == Get(result.id, JStr(UnknownUnderscore \o IntToStr(idx)))
          url == Get(result.url, JStr(UnknownUrl))
          timestamp == Get(result.timestamp, JStr(<<>>))
      IN
      IF url.type # "string" THEN [counted EXCEPT !.exc = "AttributeError"]
      ELSE
      LET filename == FilenameOptional(counted.count, timestamp, url) IN
      IF fault
      THEN [counted EXCEPT !.exc = "OSError", !.failed = @ \cup {idx}]
      ELSE [WriteFile(counted, idx, filename, screenshot_data.s) EXCEPT
              !.out = Append(@, LogLine("extracted", idx, counted.count,
                                        filename, url, Len(screenshot_data.s)))]
    ELSE
      LET data_type == Get(result.data, EmptyData) IN
      IF data_type.type # "object" THEN [fr EXCEPT !.exc = "AttributeError"]
      ELSE IF Truthy(Get(data_type.navigated, JNull))
      THEN [fr EXCEPT !.out = Append(@, LogLine("navigation", idx, 0, <<>>,
                                         Get(result.url, JStr(Unknown)), 0))]
      ELSE [fr EXCEPT !.out = Append(@, LogLine("no_screenshot", idx, 0, <<>>,
                                                Absent, 0))]

(* ------------------------------- inputs ------------------------------- *)

UrlX == <<"h","t","t","p",":","/","/","x",".","c","o","m","/","p">>
Time2024 == <<"2","0","2","4","-","0","1","-","0","1","T","0","0",":","0","0",":","0","0","Z">>
ShotA == <<"d","a","t","a",":","i","m","a","g","e","/","p","n","g",";","b","a","s","e","6","4",",","A","A","A","A">>
ShotB == <<"d","a","t","a",":","i","m","a","g","e","/","p","n","g",";","b","a","s","e","6","4",",","B","B","B","B">>
LooseShot == <<"d","a","t","a",":","i","m","a","g","e","x","p","n","g">>

\* the entries that recentResults lists are drawn from
EntryPool ==
    { \* a screenshot, every field present
      Entry(JStr(<<"a">>), JStr(UrlX), JStr(Time2024), Metadata(JStr(ShotA)), Absent),
      \* another screenshot of the same id, url and timestamp
      Entry(JStr(<<"a">>), JStr(UrlX), JStr(Time2024), Metadata(JStr(ShotB)), Absent),
      \* a navigation whose screenshot lacks the prefix
      Entry(JStr(<<"b">>), JStr(UrlX), JStr(Time2024), Metadata(JStr(LooseShot)),
            DataField(JBool(TRUE))),
      \* an event with no field at all
      Entry(Absent, Absent, Absent, Absent, Absent),
      \* a screenshot with no id, url or timestamp
      Entry(Absent, Absent, Absent, Metadata(JStr(ShotA)), Absent),
      \* an entry that is no object
      JStr(<<"a">>),
      \* a screenshot that is no string
      Entry(JStr(<<"a">>), JStr(UrlX), JStr(Time2024), Metadata(JNum(5)), Absent),
      \* metadata that is null
      Entry(JStr(<<"a">>), JStr(UrlX), JStr(Time2024), JNull, Absent),
      \* a screenshot whose url and timestamp are numbers
      Entry(JStr(<<"a">>), JNum(5), JNum(5), Metadata(JStr(ShotA)), Absent),
      \* data that is no object
      Entry(JStr(<<"b">>), JStr(UrlX), Absent, Absent, JStr(<<"a">>)) }

RECURSIVE SeqsUpTo(_, _)
SeqsUpTo(S, n) ==
    IF n = 0 THEN {<<>>}
    ELSE LET shorter == SeqsUpTo(S, n - 1) IN
         shorter \cup {Append(q, e) : q \in shorter, e \in S}

\* the values of the recentResults key
RecentResultsPool ==
    {JArray(q) : q \in SeqsUpTo(EntryPool, MaxResults)}
        \cup {Absent, JNull, JNum(5), JStr(<<"a", "b">>)}

\* the Direct shape
DirectDocuments == {Document(Absent, rr) : rr \in RecentResultsPool}

\* the Wrapped shape: contents[0].text is the JSON text of a Direct document
WrappedDocuments ==
    {Document(JArray(<<Content(JsonText(d))>>), Absent) : d \in DirectDocuments}

\* documents of neither shape
OtherDocuments ==
    { JArray(<<>>), JNum(5), JNull, JStr(<<"a", "b">>),
      Document(JArray(<<>>), JArray(<<JStr(<<"a">>)>>)),
      Document(JArray(<<Content(Garbage)>>), Absent),
      Document(JArray(<<Content(Absent)>>), Absent),
      Document(JArray(<<Content(JNum(5))>>), Absent),
      Document(JArray(<<Content(JsonText(JArray(<<>>)))>>), Absent),
      Document(JArray(<<JStr(<<"a">>)>>), Absent),
      Document(JNum(5), Absent) }

\* what reading and parsing the input file gives
FileContents ==
    {[kind |-> "json", value |-> d] :
        d \in DirectDocuments \cup WrappedDocuments \cup OtherDocuments}
        \cup {[kind |-> "invalid", value |-> Absent],
              [kind |-> "unreadable", value |-> Absent]}

(* ------------------------------- the run ------------------------------ *)

Init ==
    /\ variant \in {"strict", "optional"}
    /\ nargs \in 0..MaxArgs
    /\ fileExists \in BOOLEAN
    /\ dirExisted \in BOOLEAN
    /\ dirExists = dirExisted
    /\ pc = "main"
    /\ data = Absent
    /\ recent_results = Absent
    /\ i = 0
    /\ screenshot_count = 0
    /\ fs = <<>>
    /\ out = <<>>
    /\ wrote = <<>>
    /\ failed = {}
    /\ raised = ""
    /\ exit_status = -1

input == <<variant, nargs, fileExists, dirExisted>>
locals == <<data, recent_results, i, screenshot_count>>
files == <<dirExists, fs, wrote, failed>>

ApplyFrame(fr) ==
    /\ screenshot_count' = fr.count
    /\ fs' = fr.fs
    /\ out' = fr.out
    /\ wrote' = fr.wrote
    /\ failed' = fr.failed

\* len(v) is defined
HasLen(v) == v.type \in {"array", "string", "object"}

(* strict: src/extract-screenshots.py *)

\* main, lines 99-112
MainStrict ==
    /\ pc = "main" /\ variant = "strict"
    /\ IF nargs # 1
       THEN /\ out' = Append(out, Line("usage"))
            /\ exit_status' = 1
            /\ pc' = "exited"
       ELSE /\ pc' = "extract"
            /\ UNCHANGED <<out, exit_status>>
    /\ UNCHANGED <<input, locals, files, raised>>

\* ExistsStrict with the test of line 22 left out: a missing file is opened
ExistsStrictUnchecked ==
    /\ pc = "extract" /\ variant = "strict"
    /\ out' = out \o <<Line("header"), Line("reading")>>
    /\ pc' = "load"
    /\ UNCHANGED <<input, locals, files, raised, exit_status>>

\* lines 19-26
ExistsStrict ==
    /\ pc = "extract" /\ variant = "strict"
    /\ IF ~fileExists
       THEN /\ out' = out \o <<Line("header"), Line("not_found")>>
            /\ pc' = "return"
       ELSE /\ out' = out \o <<Line("header"), Line("reading")>>
            /\ pc' = "load"
    /\ UNCHANGED <<input, locals, files, raised, exit_status>>

\* lines 28-36
LoadStrict ==
    /\ pc = "load" /\ variant = "strict"
    /\ \E content \in FileContents :
          CASE content.kind = "json" ->
                 /\ data' = content.value
                 /\ pc' = "normalize"
                 /\ UNCHANGED out
            [] content.kind = "invalid" ->
                 /\ out' = Append(out, Line("json_error"))
                 /\ pc' = "return"
                 /\ UNCHANGED data
            [] OTHER ->
                 /\ out' = Append(out, Line("read_error"))
                 /\ pc' = "return"
                 /\ UNCHANGED data
    /\ UNCHANGED <<input, recent_results, i, screenshot_count, files, raised,
                   exit_status>>

\* lines 38-45
NormalizeStrict ==
    /\ pc = "normalize" /\ variant = "strict"
    /\ LET got == RecentResultsStrict(data) IN
       IF got.exc # ""
       THEN /\ raised' = got.exc
            /\ pc' = "uncaught"
            /\ UNCHANGED <<recent_results, out>>
       ELSE /\ recent_results' = got.results
            /\ IF ~Truthy(got.results)
               THEN /\ out' = Append(out, Line("no_results"))
                    /\ pc' = "return"
                    /\ UNCHANGED raised
               ELSE IF ~HasLen(got.results)
               THEN /\ raised' = "TypeError"
                    /\ pc' = "uncaught"
                    /\ UNCHANGED out
               ELSE /\ out' = Append(out, Line("found"))
                    /\ pc' = "makedirs"
                    /\ UNCHANGED raised
    /\ UNCHANGED <<input, data, i, screenshot_count, files, exit_status>>

\* lines 47-51
MakedirsStrict ==
    /\ pc = "makedirs" /\ variant = "strict"
    /\ screenshot_count' = 0
    /\ dirExists' = TRUE
    /\ i' = 0
    /\ pc' = "loop"
    /\ UNCHANGED <<input, data, recent_results, fs, wrote, failed, out, raised,
                   exit_status>>

\* lines 53-86: one iteration of the for loop
LoopStrict ==
    /\ pc = "loop" /\ variant = "strict"
    /\ i < Len(Elements(recent_results))
    /\ \E fault \in BOOLEAN :
          LET fr == LoopBodyStrict(
                        Frame(screenshot_count, fs, out, wrote, failed),
                        Elements(recent_results)[i + 1], i, fault)
          IN /\ ApplyFrame(fr)
             /\ IF fr.exc # ""
                THEN raised' = fr.exc /\ pc' = "uncaught" /\ i' = i
                ELSE UNCHANGED raised /\ pc' = "loop" /\ i' = i + 1
    /\ UNCHANGED <<input, data, recent_results, dirExists, exit_status>>

\* lines 88-96
SummaryStrict ==
    /\ pc = "loop" /\ variant = "strict"
    /\ i = Len(Elements(recent_results))
    /\ out' = Append(out, IF screenshot_count = 0 THEN Line("no_screenshots")
                          ELSE LogLine("success", -1, screenshot_count,
                                       output_dir, Absent, 0))
    /\ pc' = "return"
    /\ UNCHANGED <<input, locals, files, raised, exit_status>>

\* lines 112-115: extract_screenshots returned, the script ends
ExitStrict ==
    /\ pc = "return" /\ variant = "strict"
    /\ exit_status' = 0
    /\ pc' = "exited"
    /\ UNCHANGED <<input, locals, files, out, raised>>

\* lines 112-115: the exception leaves extract_screenshots and main, which
\* catch nothing; the interpreter prints the traceback and exits with 1
UncaughtStrict ==
    /\ pc = "uncaught" /\ variant = "strict"
    /\ out' = Append(out, Line("traceback"))
    /\ exit_status' = 1
    /\ pc' = "exited"
    /\ UNCHANGED <<input, locals, files, raised>>

(* optional: src/examples/browser-mcp/extract-screenshots.py *)

\* main, lines 108-116: any number of arguments is accepted
MainOptional ==
    /\ pc = "main" /\ variant = "optional"
    /\ out' = Append(out, Line("header"))
    /\ pc' = "extract"
    /\ UNCHANGED <<input, locals, files, raised, exit_status>>

\* lines 16-19
ExistsOptional ==
    /\ pc = "extract" /\ variant = "optional"
    /\ IF ~fileExists
       THEN /\ out' = Append(out, Line("not_found"))
            /\ pc' = "return"
       ELSE /\ pc' = "load"
            /\ UNCHANGED out
    /\ UNCHANGED <<input, locals, files, raised, exit_status>>

\* lines 21-26
LoadOptional ==
    /\ pc = "load" /\ variant = "optional"
    /\ \E content \in FileContents :
          CASE content.kind = "json" ->
                 /\ data' = content.value
                 /\ out' = Append(out, Line("reading"))
                 /\ pc' = "normalize"
                 /\ UNCHANGED raised
            [] content.kind = "invalid" ->
                 /\ raised' = "JSONDecodeError"
                 /\ pc' = "except"
                 /\ UNCHANGED <<data, out>>
            [] OTHER ->
                 /\ raised' = "OSError"
                 /\ pc' = "except"
                 /\ UNCHANGED <<data, out>>
    /\ UNCHANGED <<input, recent_results, i, screenshot_count, files,
                   exit_status>>

\* NormalizeOptional with the test of line 37 left out: an empty result list
\* goes on to the loop
NormalizeOptionalUnchecked ==
    /\ pc = "normalize" /\ variant = "optional"
    /\ LET got == RecentResultsOptional(data) IN
       IF got.exc # ""
       THEN /\ raised' = got.exc
            /\ pc' = "except"
            /\ UNCHANGED <<recent_results, out>>
       ELSE /\ recent_results' = got.results
            /\ pc' = "makedirs"
            /\ UNCHANGED <<raised, out>>
    /\ UNCHANGED <<input, data, i, screenshot_count, files, exit_status>>

\* lines 28-39
NormalizeOptional ==
    /\ pc = "normalize" /\ variant = "optional"
    /\ LET got == RecentResultsOptional(data) IN
       IF got.exc # ""
       THEN /\ raised' = got.exc
            /\ pc' = "except"
            /\ UNCHANGED <<recent_results, out>>
       ELSE /\ recent_results' = got.results
            /\ UNCHANGED raised
            /\ IF ~Truthy(got.results)
               THEN /\ out' = Append(out, Line("no_results"))
                    /\ pc' = "return"
               ELSE /\ pc' = "makedirs"
                    /\ UNCHANGED out
    /\ UNCHANGED <<input, data, i, screenshot_count, files, exit_status>>

\* lines 41-48: the directory is made, then enumerate() takes the results
MakedirsOptional ==
    /\ pc = "makedirs" /\ variant = "optional"
    /\ screenshot_count' = 0
    /\ dirExists' = TRUE
    /\ i' = 0
    /\ IF Iterable(recent_results)
       THEN pc' = "loop" /\ UNCHANGED raised
       ELSE pc' = "except" /\ raised' = "TypeError"
    /\ UNCHANGED <<input, data, recent_results, fs, wrote, failed, out,
                   exit_status>>

\* lines 48-90: one iteration of the for loop
LoopOptional ==
    /\ pc = "loop" /\ variant = "optional"
    /\ i < Len(Elements(recent_results))
    /\ \E fault \in BOOLEAN :
          LET fr == LoopBodyOptional(
                        Frame(screenshot_count, fs, out, wrote, failed),
                        Elements(recent_results)[i + 1], i, fault)
          IN /\ ApplyFrame(fr)
             /\ IF fr.exc # ""
                THEN raised' = fr.exc /\ pc' = "except" /\ i' = i
                ELSE UNCHANGED raised /\ pc' = "loop" /\ i' = i + 1
    /\ UNCHANGED <<input, data, recent_results, dirExists, exit_status>>

\* lines 92-98
SummaryOptional ==
    /\ pc = "loop" /\ variant = "optional"
    /\ i = Len(Elements(recent_results))
    /\ out' = Append(out, IF screenshot_count = 0 THEN Line("no_screenshots")
                          ELSE LogLine("success", -1, screenshot_count,
                                       output_dir, Absent, 0))
    /\ pc' = "return"
    /\ UNCHANGED <<input, locals, files, raised, exit_status>>

\* lines 100-104: the two handlers of the try that spans the function
ExceptOptional ==
    /\ pc = "except" /\ variant = "optional"
    /\ out' = Append(out, IF raised = "JSONDecodeError" THEN Line("json_error")
                          ELSE Line("unexpected_error"))
    /\ raised' = ""
    /\ pc' = "return"
    /\ UNCHANGED <<input, locals, files, exit_status>>

\* lines 116-119: extract_screenshots returned, the script ends
ExitOptional ==
    /\ pc = "return" /\ variant = "optional"
    /\ exit_status' = 0
    /\ pc' = "exited"
    /\ UNCHANGED <<input, locals, files, out, raised>>

Next ==
    \/ MainStrict
    \/ ExistsStrict
    \/ LoadStrict
    \/ NormalizeStrict
    \/ MakedirsStrict
    \/ LoopStrict
    \/ SummaryStrict
    \/ ExitStrict
    \/ UncaughtStrict
    \/ MainOptional
    \/ ExistsOptional
    \/ LoadOptional
    \/ NormalizeOptional
    \/ MakedirsOptional
    \/ LoopOptional
    \/ SummaryOptional
    \/ ExceptOptional
    \/ ExitOptional

Spec == Init /\ [][Next]_vars

(* ----------------- extract_screenshots as a function ------------------ *)

\* the for loop of the strict script from index idx on; faults are the
\* indices whose output file cannot be opened
RECURSIVE RunLoopStrict(_, _, _, _)
RunLoopStrict(fr, items, idx, faults) ==
    IF idx >= Len(items) \/ fr.exc # "" THEN fr
    ELSE RunLoopStrict(LoopBodyStrict(fr, items[idx + 1], idx, idx \in faults),
                       items, idx + 1, faults)

\* the for loop of the optional script from index idx on
RECURSIVE RunLoopOptional(_, _, _, _)
RunLoopOptional(fr, items, idx, faults) ==
    IF idx >= Len(items) \/ fr.exc # "" THEN fr
    ELSE RunLoopOptional(LoopBodyOptional(fr, items[idx + 1], idx, idx \in faults),
                         items, idx + 1, faults)

\* the files and the per-entry prints of the strict script on the parsed
\* document d
ExtractStrict(d, faults) ==
    LET got == RecentResultsStrict(d) IN
    IF got.exc # "" \/ ~Truthy(got.results) \/ ~HasLen(got.results)
    THEN Frame(0, <<>>, <<>>, <<>>, {})
    ELSE RunLoopStrict(Frame(0, <<>>, <<>>, <<>>, {}), Elements(got.results),
                       0, faults)

\* the files and the per-entry prints of the optional script on the parsed
\* document d
ExtractOptional(d, faults) ==
    LET got == RecentResultsOptional(d) IN
    IF got.exc # "" \/ ~Truthy(got.results) \/ ~Iterable(got.results)
    THEN Frame(0, <<>>, <<>>, <<>>, {})
    ELSE RunLoopOptional(Frame(0, <<>>, <<>>, <<>>, {}), Elements(got.results),
                         0, faults)

(* ------------------------ vocabulary of the claims -------------------- *)

HasLine(kind) == \E k \in 1..Len(out) : out[k].kind = kind

IsEntryLine(l) == l.idx >= 0

\* the prints of the run that are about one entry, in the order printed
EntryLines == SelectSeq(out, IsEntryLine)

StringOrAbsent(v) == v.type \in {"string", "absent"}

\* a ResultEntry as the data model describes it
WellFormedEntry(e) ==
    /\ e.type = "object"
    /\ StringOrAbsent(e.id) /\ StringOrAbsent(e.url)
    /\ StringOrAbsent(e.timestamp)
    /\ e.metadata.type \in {"object", "absent"}
    /\ e.metadata.type = "object" => StringOrAbsent(e.metadata.screenshot)
    /\ e.data.type \in {"object", "absent"}

\* metadata.screenshot is a string that starts with data:image/
QualifyingEntry(e) ==
    /\ e.type = "object"
    /\ e.metadata.type = "object"
    /\ e.metadata.screenshot.type = "string"
    /\ StartsWith(e.metadata.screenshot.s, DataImagePrefix)

\* data.navigated is truthy
NavigatedEntry(e) ==
    /\ e.type = "object"
    /\ e.data.type = "object"
    /\ Truthy(Get(e.data.navigated, JNull))

\* the result list the run works on, and the indices of its screenshots
Listed == Elements(recent_results)
QualifyingIdx == {k \in 0..(Len(Listed) - 1) : QualifyingEntry(Listed[k + 1])}
WroteIdx == {wrote[k].idx : k \in 1..Len(wrote)}

AllWellFormed == \A k \in 1..Len(Listed) : WellFormedEntry(Listed[k])

\* the loop went through the whole list and the summary was printed
RunCompleted ==
    pc = "exited" /\ (HasLine("success") \/ HasLine("no_screenshots"))

\* the document read has the Direct shape, with a list under recentResults
IsDirect(d) ==
    d.type = "object" /\ d.contents.type = "absent"
        /\ d.recentResults.type = "array"

\* the document read has the Wrapped shape around such a Direct document
IsWrapped(d) ==
    /\ d.type = "object" /\ d.contents.type = "array"
    /\ Len(d.contents.items) > 0
    /\ d.contents.items[1].type = "object"
    /\ d.contents.items[1].text.type = "string"
    /\ d.contents.items[1].text.json
    /\ IsDirect(d.contents.items[1].text.decoded)

Inner(d) == d.contents.items[1].text.decoded

\* recentResults is missing or [] in the document, or in the one it wraps
EmptyShape(d) ==
    \/ /\ d.type = "object" /\ d.contents.type = "absent"
       /\ d.recentResults \in {Absent, JArray(<<>>)}
    \/ /\ d.type = "object" /\ d.contents.type = "array"
       /\ Len(d.contents.items) > 0
       /\ d.contents.items[1].type = "object"
       /\ d.contents.items[1].text.type = "string"
       /\ d.contents.items[1].text.json
       /\ d.contents.items[1].text.decoded.type = "object"
       /\ d.contents.items[1].text.decoded.contents.type = "absent"
       /\ d.contents.items[1].text.decoded.recentResults
              \in {Absent, JArray(<<>>)}
       /\ d.recentResults.type = "absent"

\* extract_screenshots was called: the strict script wants one argument
Called == variant = "optional" \/ nargs = 1

(* -------------------------------- claims ------------------------------ *)

\* C1: after a run that went through the whole list with every write
\* succeeding, the files written correspond one to one to the entries whose
\* metadata.screenshot starts with data:image/: each such entry was written,
\* no other entry was, and there are as many files as such entries.
C1_OneFilePerScreenshot ==
    (RunCompleted /\ failed = {}) =>
        /\ WroteIdx = QualifyingIdx
        /\ Cardinality(DOMAIN fs) = Cardinality(QualifyingIdx)

\* C2: when the write of one entry fails, the loop goes on: at the end of
\* the run every screenshot entry whose own write did not fail has its file
\* written (the entries of the list being well-formed).
C2_WriteFailureDoesNotAbort ==
    (pc = "exited" /\ failed # {} /\ AllWellFormed) =>
        \A k \in QualifyingIdx : k \notin failed => k \in WroteIdx

\* C3: for an input file that exists and parses as JSON, no exception
\* leaves extract_screenshots.
C3_NoExceptionPropagates ==
    (fileExists /\ data.type # "absent") => pc # "uncaught"

\* C4: on a Wrapped document the run writes the files and prints the
\* per-entry lines that the same script gives on the Direct document that
\* contents[0].text decodes to.
C4_WrappedAsDirect ==
    (pc = "exited" /\ IsWrapped(data)) =>
        LET direct == IF variant = "strict"
                      THEN ExtractStrict(Inner(data), failed)
                      ELSE ExtractOptional(Inner(data), failed)
        IN fs = direct.fs /\ EntryLines = direct.out

\* C5: on a Direct document of well-formed entries, with every write
\* succeeding, the run prints exactly one per-entry line for every entry, in
\* the order of the entries: a confirmation for a screenshot entry, else a
\* navigation line when data.navigated is truthy, else a 'no screenshot
\* data' line.
C5_OneLinePerEntry ==
    (pc = "exited" /\ IsDirect(data) /\ AllWellFormed /\ failed = {}) =>
        /\ Len(EntryLines) = Len(Listed)
        /\ \A k \in 1..Len(EntryLines) :
              /\ EntryLines[k].idx = k - 1
              /\ EntryLines[k].kind =
                    IF QualifyingEntry(Listed[k]) THEN "extracted"
                    ELSE IF NavigatedEntry(Listed[k]) THEN "navigation"
                    ELSE "no_screenshot"

\* C6: at the end of the run, the file at the name derived for an entry
\* whose write succeeded holds exactly that entry's metadata.screenshot.
C6_FileHoldsScreenshot ==
    (pc = "exited") =>
        \A k \in 1..Len(wrote) :
            fs[wrote[k].path] = Listed[wrote[k].idx + 1].metadata.screenshot.s

\* C7: when the input path does not exist, extract_screenshots reports
\* not-found and returns without raising; it reads nothing, writes no file
\* and does not create the output directory.
C7_NotFoundLeavesFilesystem ==
    ~fileExists =>
        /\ pc \in {"main", "extract", "return", "exited"}
        /\ fs = <<>> /\ wrote = <<>> /\ dirExists = dirExisted
        /\ raised = "" /\ ~HasLine("traceback")
        /\ (Called /\ pc \in {"return", "exited"}) => HasLine("not_found")
        /\ (Called /\ pc = "exited") => exit_status = 0

\* a run on a missing input that ended, the output directory not existing
C7_Witness ==
    /\ ~fileExists /\ ~dirExisted /\ Called
    /\ pc = "exited" /\ HasLine("not_found") /\ ~dirExists

\* C8: when recentResults is missing or empty (in a Direct document, or in
\* the document a Wrapped one decodes to), the run reports 'no results
\* found' and ends: it never reaches the loop, writes no file, prints no
\* per-entry line and no screenshot summary.
C8_EmptyResultsEndRun ==
    (data.type # "absent" /\ EmptyShape(data)) =>
        /\ pc \in {"normalize", "return", "exited"}
        /\ pc # "normalize" => HasLine("no_results")
        /\ fs = <<>> /\ wrote = <<>> /\ failed = {}
        /\ EntryLines = <<>>
        /\ ~HasLine("success") /\ ~HasLine("no_screenshots")
        /\ raised = ""

\* a Wrapped document around recentResults: [] was read and the run ended
C8_Witness ==
    /\ pc = "exited" /\ variant = "optional"
    /\ EmptyShape(data) /\ data.contents.type = "array"
    /\ Inner(data).recentResults = JArray(<<>>)
    /\ HasLine("no_results")

\* C9: the exit status is non-zero only when the strict script is given an
\* argument count other than one.
C9_ExitStatus ==
    (pc = "exited" /\ exit_status # 0) => (variant = "strict" /\ nargs # 1)

\* C10: when the run prints the success summary, its count is the number of
\* files written, and the confirmation lines carry the counts 1, 2, ...,
\* count in the order of the entries.
C10_SummaryCountsFiles ==
    \A k \in 1..Len(out) :
        out[k].kind = "success" =>
            /\ out[k].count = Cardinality(DOMAIN fs)
            /\ LET confirmed == SelectSeq(EntryLines,
                                    LAMBDA l : l.kind = "extracted")
               IN /\ Len(confirmed) = out[k].count
                  /\ \A n \in 1..Len(confirmed) : confirmed[n].count = n

====
